---- MODULE Spec2Model ----
(***************************************************************************)
(* Business-intelligence assistant: the data loader, the column-role       *)
(* resolver and the request script that consumes them.                     *)
(*                                                                         *)
(*   module/data_utils.py  load_and_clean_data, substitute_column_names,   *)
(*                         find_best_column, infer_column_roles            *)
(*   app/app.py            safe_column and the request script              *)
(*                                                                         *)
(* A string is the sequence of its Unicode code points, so that lower(),   *)
(* strip(), substring tests, difflib's similarity ratio and the ordering   *)
(* of strings are computed as Python computes them. None (and the empty    *)
(* string, which Python's `or` and `if` treat alike) is the empty          *)
(* sequence: no header is empty, pandas names an empty header "Unnamed".   *)
(***************************************************************************)
EXTENDS Integers, Sequences, FiniteSets, TLC

VARIABLES
    pc,          \* position of the request script (app.py)
    file,        \* the uploaded file, as load_and_clean_data sees it
    df,          \* the DataFrame: <<[name, dtype], ...>>, [] before the load
    nrows,       \* number of rows of df
    error,       \* the exception that ended the request, "" if none
    inferred,    \* the candidate mapping returned by infer_column_roles
    roles,       \* revenue_col, product_col, region_col, month_col
    ai_summary,  \* TRUE when the executive summary was generated
    shown,       \* charts drawn by the visualizations block
    chart_paths  \* charts saved for the PDF report

vars == <<pc, file, df, nrows, error, inferred, roles, ai_summary, shown, chart_paths>>

None == <<>>

-----------------------------------------------------------------------------
(* Strings of the program and of the inputs *)

sRevenue      == <<82,101,118,101,110,117,101>>                   \* "Revenue"
sSales        == <<83,97,108,101,115>>                            \* "Sales"
sTotal        == <<84,111,116,97,108>>                            \* "Total"
sIncome       == <<73,110,99,111,109,101>>                        \* "Income"
sIngresos     == <<73,110,103,114,101,115,111,115>>               \* "Ingresos"
sAmount       == <<65,109,111,117,110,116>>                       \* "Amount"
sVentas       == <<86,101,110,116,97,115>>                        \* "Ventas"
sProduct      == <<80,114,111,100,117,99,116>>                    \* "Product"
sItem         == <<73,116,101,109>>                               \* "Item"
sProducto     == <<80,114,111,100,117,99,116,111>>                \* "Producto"
sProduct_Name == <<80,114,111,100,117,99,116,95,78,97,109,101>>   \* "Product_Name"
sShangpin     == <<21830,21697>>                                  \* U+5546 U+54C1
sRegion       == <<82,101,103,105,111,110>>                       \* "Region"
sArea         == <<65,114,101,97>>                                \* "Area"
sTerritory    == <<84,101,114,114,105,116,111,114,121>>           \* "Territory"
sZone         == <<90,111,110,101>>                               \* "Zone"
sRegionEs     == <<82,101,103,105,243,110>>                       \* "Regi(o acute)n"
sDiqu         == <<22320,21306>>                                  \* U+5730 U+533A
sMonth        == <<77,111,110,116,104>>                           \* "Month"
sMes          == <<77,101,115>>                                   \* "Mes"
sPeriodo      == <<80,101,114,105,111,100,111>>                   \* "Periodo"
sPeriod       == <<80,101,114,105,111,100>>                       \* "Period"
sDate         == <<68,97,116,101>>                                \* "Date"
sFecha        == <<70,101,99,104,97>>                             \* "Fecha"
sYuefen       == <<26376,20221>>                                  \* U+6708 U+4EFD
s_month       == <<109,111,110,116,104>>                          \* "month"
s_revenue     == <<114,101,118,101,110,117,101>>                  \* "revenue"

\* File extensions, as os.path.splitext returns them
extCsv   == <<46,99,115,118>>          \* ".csv"
extCSV   == <<46,67,83,86>>            \* ".CSV"
extTxt   == <<46,116,120,116>>         \* ".txt"
extXls   == <<46,120,108,115>>         \* ".xls"
extXlsx  == <<46,120,108,115,120>>     \* ".xlsx"
extJson  == <<46,106,115,111,110>>     \* ".json"
extNone  == <<>>                       \* no extension

-----------------------------------------------------------------------------
(* Python's str methods *)

\* str.lower(), one code point: ASCII and Latin-1 capitals
LowerChar(c) ==
    IF c >= 65 /\ c <= 90 THEN c + 32
    ELSE IF c >= 192 /\ c <= 222 /\ c # 215 THEN c + 32
    ELSE c

lower(s) == [i \in 1..Len(s) |-> LowerChar(s[i])]

IsSpace(c) == c \in {9, 10, 11, 12, 13, 32}

RECURSIVE lstrip(_)
lstrip(s) == IF s # <<>> /\ IsSpace(Head(s)) THEN lstrip(Tail(s)) ELSE s

RECURSIVE rstrip(_)
rstrip(s) ==
    IF s # <<>> /\ IsSpace(s[Len(s)]) THEN rstrip(SubSeq(s, 1, Len(s) - 1)) ELSE s

strip(s) == lstrip(rstrip(s))

\* `sub in s` for strings
Contains(sub, s) ==
    \E i \in 1..(Len(s) - Len(sub) + 1) : SubSeq(s, i, i + Len(sub) - 1) = sub

\* s < t in Python's ordering of strings (by code point, a prefix first)
StrLess(s, t) ==
    \E k \in 1..(Len(t)) :
        /\ k <= Len(s) + 1
        /\ \A i \in 1..(k - 1) : s[i] = t[i]
        /\ (k = Len(s) + 1 \/ s[k] < t[k])

-----------------------------------------------------------------------------
(* difflib.SequenceMatcher and difflib.get_close_matches. No junk: isjunk   *)
(* is None and the popularity heuristic applies from 200 elements on.      *)

\* Length of the common prefix of a[i..ahi-1] and b[j..bhi-1]
RECURSIVE CommonLen(_, _, _, _, _, _)
CommonLen(a, i, ahi, b, j, bhi) ==
    IF i < ahi /\ j < bhi /\ a[i] = b[j]
    THEN 1 + CommonLen(a, i + 1, ahi, b, j + 1, bhi)
    ELSE 0

\* find_longest_match(alo, ahi, blo, bhi): <<i, j, k>>, the longest block
\* a[i..i+k-1] = b[j..j+k-1]; of those the one starting earliest in a, and of
\* those the one starting earliest in b. Bounds are half open, indices from 1.
LongestOf(Blocks, alo, blo) ==
    IF Blocks = {} THEN <<alo, blo, 0>>
    ELSE CHOOSE m \in Blocks :
            \A o \in Blocks :
                \/ m[3] > o[3]
                \/ m[3] = o[3] /\ m[1] < o[1]
                \/ m[3] = o[3] /\ m[1] = o[1] /\ m[2] <= o[2]

find_longest_match(a, alo, ahi, b, blo, bhi) ==
    LongestOf({ <<i, j, CommonLen(a, i, ahi, b, j, bhi)>> :
                  i \in alo..(ahi - 1), j \in blo..(bhi - 1) }, alo, blo)

\* Sum of the sizes of get_matching_blocks(): the longest block m, then the
\* pieces to its left and to its right.
RECURSIVE MatchingSize(_, _, _, _, _, _)
RECURSIVE SizeAround(_, _, _, _, _, _, _)
SizeAround(a, alo, ahi, b, blo, bhi, m) ==
    IF m[3] = 0 THEN 0
    ELSE m[3]
         + MatchingSize(a, alo, m[1], b, blo, m[2])
         + MatchingSize(a, m[1] + m[3], ahi, b, m[2] + m[3], bhi)

MatchingSize(a, alo, ahi, b, blo, bhi) ==
    SizeAround(a, alo, ahi, b, blo, bhi, find_longest_match(a, alo, ahi, b, blo, bhi))

\* Matches of SequenceMatcher(a=x, b=word)
Matches(x, word) == MatchingSize(x, 1, Len(x) + 1, word, 1, Len(word) + 1)

\* cutoff=0.4 of find_best_column, as a fraction
CutoffNum == 4
CutoffDen == 10

-----------------------------------------------------------------------------
(* Bounds of the model *)

MaxCols == 2    \* columns of an uploaded file
MaxRows == 2    \* data rows of an uploaded file

-----------------------------------------------------------------------------
(* COLUMN_SYNONYMS, in the order of the dict: <<standard name, variants>> *)

COLUMN_SYNONYMS ==
    << <<sRevenue, <<sRevenue, sSales, sTotal, sIncome, sIngresos, sAmount, sVentas>> >>,
       <<sProduct, <<sProduct, sItem, sProducto, sProduct_Name, sShangpin>> >>,
       <<sRegion,  <<sRegion, sArea, sTerritory, sZone, sRegionEs, sDiqu>> >>,
       <<sMonth,   <<sMonth, sMes, sPeriodo, sPeriod, sDate, sFecha, sYuefen>> >> >>

\* COLUMN_SYNONYMS.get(expected, [expected])
SynonymsGet(expected) ==
    IF \E k \in 1..Len(COLUMN_SYNONYMS) : COLUMN_SYNONYMS[k][1] = expected
    THEN COLUMN_SYNONYMS[CHOOSE k \in 1..Len(COLUMN_SYNONYMS) :
                            COLUMN_SYNONYMS[k][1] = expected][2]
    ELSE <<expected>>

-----------------------------------------------------------------------------
(* The uploaded files. A column of a file is its raw header and the dtype   *)
(* pandas infers for its values; read_csv and read_excel make raw headers  *)
(* distinct, so a file's columns are distinct entries of the pool.         *)

sQty      == <<81,116,121>>              \* "Qty"
sNotes    == <<78,111,116,101,115>>      \* "Notes"
sSalesPad == <<32,83,97,108,101,115>>    \* " Sales"
sZzz      == <<90,122,122>>              \* "Zzz"

ColumnPool ==
    << [name |-> sSales,    dtype |-> "number"],
       [name |-> sSalesPad, dtype |-> "object"],
       [name |-> sProducto, dtype |-> "object"],
       [name |-> sProduct,  dtype |-> "number"],
       [name |-> sQty,      dtype |-> "number"],
       [name |-> sDate,     dtype |-> "object"],
       [name |-> s_month,   dtype |-> "object"],
       [name |-> sNotes,    dtype |-> "object"] >>

\* Sequences of n distinct pool columns
RECURSIVE HeadersOfLen(_)
HeadersOfLen(n) ==
    IF n = 0 THEN { <<>> }
    ELSE { Append(h[1], ColumnPool[h[2]]) :
             h \in { p \in HeadersOfLen(n - 1) \X (1..Len(ColumnPool)) :
                       \A i \in 1..Len(p[1]) : p[1][i] # ColumnPool[p[2]] } }

Headers == UNION { HeadersOfLen(n) : n \in 1..MaxCols }

\* chardet's answers and the encodings a file may parse under
NoEncoding == "None"
Encodings  == {"utf-8", "ISO-8859-1"}

\* rows: data rows of the file; nullrows: those of them with every cell null
RowCounts == { <<r, n>> \in (0..MaxRows) \X (0..MaxRows) : n <= r }

CsvExts         == {extCsv, extCSV, extTxt}
ExcelExts       == {extXls, extXlsx}
UnsupportedExts == {extJson, extNone}

\* The files of the model: a delimited-text file has a detected encoding and
\* the set of encodings read_csv can parse it with; a spreadsheet is readable
\* by read_excel or not.
TextFiles ==
    { [ext |-> e, detected |-> d, parseable |-> p, readable |-> TRUE,
       header |-> h, rows |-> rc[1], nullrows |-> rc[2]] :
        e \in CsvExts, d \in Encodings \cup {NoEncoding}, p \in SUBSET Encodings,
        h \in Headers, rc \in RowCounts }

OtherFiles ==
    { [ext |-> e, detected |-> NoEncoding, parseable |-> {}, readable |-> r,
       header |-> h, rows |-> rc[1], nullrows |-> rc[2]] :
        e \in ExcelExts \cup UnsupportedExts, r \in BOOLEAN,
        h \in Headers, rc \in RowCounts }

-----------------------------------------------------------------------------
(* DataFrame helpers (pandas) *)

\* df.columns
Columns(d) == [i \in 1..Len(d) |-> d[i].name]

\* name in df.columns
InColumns(name, d) == \E i \in 1..Len(d) : d[i].name = name

\* positions of the columns df[name] selects: more than one when the label
\* is duplicated
Labelled(d, name) == { i \in 1..Len(d) : d[i].name = name }

\* pd.api.types.is_numeric_dtype(df[col]): df[col] is a Series when the label
\* is unique, and a DataFrame (never a numeric dtype) when it is duplicated
is_numeric_dtype(d, col) ==
    /\ Cardinality(Labelled(d, col)) = 1
    /\ \A i \in Labelled(d, col) : d[i].dtype = "number"

\* df.rename(columns=renamed): renamed is a set of <<old, new>> pairs
Rename(d, renamed) ==
    [i \in 1..Len(d) |->
        IF \E r \in renamed : r[1] = d[i].name
        THEN [d[i] EXCEPT !.name = (CHOOSE r \in renamed : r[1] = d[i].name)[2]]
        ELSE d[i]]

\* df[name] = values of dtype t: the columns labelled name take the values,
\* a new column is appended when there is none
Assign(d, name, t) ==
    IF InColumns(name, d)
    THEN [i \in 1..Len(d) |-> IF d[i].name = name THEN [d[i] EXCEPT !.dtype = t] ELSE d[i]]
    ELSE Append(d, [name |-> name, dtype |-> t])

\* list.index(x): the first position of x
IndexOf(seq, x) == CHOOSE i \in 1..Len(seq) : seq[i] = x /\ \A j \in 1..(i - 1) : seq[j] # x

-----------------------------------------------------------------------------
(* module/data_utils.py *)

\* The first variant of a role whose lower-case form is a lower-case header,
\* 0 when there is none
FirstVariant(variants, lower_cols) ==
    IF \E k \in 1..Len(variants) : \E i \in 1..Len(lower_cols) : lower_cols[i] = lower(variants[k])
    THEN CHOOSE k \in 1..Len(variants) :
            /\ \E i \in 1..Len(lower_cols) : lower_cols[i] = lower(variants[k])
            /\ \A j \in 1..(k - 1) : \A i \in 1..Len(lower_cols) : lower_cols[i] # lower(variants[j])
    ELSE 0

substitute_column_names(d) ==
    LET lower_cols == [i \in 1..Len(d) |-> lower(d[i].name)]
        renamed ==
            { <<d[IndexOf(lower_cols,
                          lower(COLUMN_SYNONYMS[r][2][FirstVariant(COLUMN_SYNONYMS[r][2], lower_cols)]))].name,
                COLUMN_SYNONYMS[r][1]>> :
                r \in { q \in 1..Len(COLUMN_SYNONYMS) :
                            FirstVariant(COLUMN_SYNONYMS[q][2], lower_cols) # 0 } }
    IN  Rename(d, renamed)

\* The part of load_and_clean_data after the read: the headers are stripped,
\* the all-null rows dropped, Month derived from Date, the synonyms renamed.
CleanFrame(header) ==
    LET stripped == [i \in 1..Len(header) |-> [header[i] EXCEPT !.name = strip(header[i].name)]]
        dated == IF InColumns(sDate, stripped)
                 THEN Assign(Assign(stripped, sDate, "datetime"), sMonth, "object")
                 ELSE stripped
    IN  substitute_column_names(dated)

\* Mutant: the delimited-text branch taken for every extension that is not a
\* spreadsheet's (`else` for `elif ext in [".csv", ".txt"]`)
load_and_clean_data_else_csv(f) ==
    LET ext == lower(f.ext)
        encoding == IF f.detected = NoEncoding THEN "utf-8" ELSE f.detected
        failed(e) == [ok |-> FALSE, error |-> e, df |-> <<>>, nrows |-> 0]
    IN  IF ext \in {extXls, extXlsx} /\ ~f.readable THEN failed("Excel read error")
        ELSE IF ext \notin {extXls, extXlsx} /\ encoding \notin f.parseable
            THEN failed("CSV read error")
        ELSE IF f.rows = 0 \/ Len(f.header) = 0 THEN failed("Loaded file is empty")
        ELSE [ok |-> TRUE, error |-> "", df |-> CleanFrame(f.header),
              nrows |-> f.rows - f.nullrows]

load_and_clean_data(f) ==
    LET ext == lower(f.ext)
        encoding == IF f.detected = NoEncoding THEN "utf-8" ELSE f.detected
        failed(e) == [ok |-> FALSE, error |-> e, df |-> <<>>, nrows |-> 0]
    IN  IF ext \in {extXls, extXlsx} /\ ~f.readable THEN failed("Excel read error")
        ELSE IF ext \in {extCsv, extTxt} /\ encoding \notin f.parseable
            THEN failed("CSV read error")
        ELSE IF ext \notin {extXls, extXlsx, extCsv, extTxt}
            THEN failed("Unsupported file type")
        ELSE IF f.rows = 0 \/ Len(f.header) = 0 THEN failed("Loaded file is empty")
        ELSE [ok |-> TRUE, error |-> "", df |-> CleanFrame(f.header),
              nrows |-> f.rows - f.nullrows]

\* What the inference step may propose for a role: nothing (null or ""), the
\* name of another role, or a name near no header
Proposals == {None, sProduct, sZzz}

\* The names a column of a loaded DataFrame can have, in lower case, and the
\* words find_best_column can look for. Matches is a function of the two
\* strings alone, so its values on these are computed once and looked up
\* (f @@ <<>> is f, held as a table).
LowerNames ==
    { lower(strip(ColumnPool[i].name)) : i \in 1..Len(ColumnPool) }
    \cup { lower(COLUMN_SYNONYMS[k][1]) : k \in 1..Len(COLUMN_SYNONYMS) }

Words ==
    UNION { { lower(COLUMN_SYNONYMS[k][2][j]) : j \in 1..Len(COLUMN_SYNONYMS[k][2]) } :
              k \in 1..Len(COLUMN_SYNONYMS) }
    \cup { lower(p) : p \in Proposals }

MatchesTable == [p \in LowerNames \X Words |-> Matches(p[1], p[2])] @@ <<>>

MatchesOf(x, word) == MatchesTable[<<x, word>>]

\* difflib.get_close_matches(word, possibilities, n=1, cutoff=0.4): the
\* possibility x with the largest (ratio, x) among those whose ratio
\* 2*M/(len(x)+len(word)) reaches the cutoff; None when there is none.
\* M[i] is the number of matches of possibilities[i] with word.
BestOf(word, possibilities, M) ==
    LET T(i)  == Len(possibilities[i]) + Len(word)
        good  == { i \in 1..Len(possibilities) : 2 * M[i] * CutoffDen >= CutoffNum * T(i) }
        AtLeast(i, j) ==
            \/ M[i] * T(j) > M[j] * T(i)
            \/ M[i] * T(j) = M[j] * T(i) /\ ~StrLess(possibilities[i], possibilities[j])
    IN  IF good = {} THEN None
        ELSE possibilities[CHOOSE i \in good : \A j \in good : AtLeast(i, j)]

get_close_matches(word, possibilities) ==
    BestOf(word, possibilities,
           [i \in 1..Len(possibilities) |-> MatchesOf(possibilities[i], word)])

\* The inner loop of find_best_column for one term: the first column whose
\* lower-case name is the close match and, for "revenue", whose dtype is
\* numeric; None when the loop ends without returning.
ColumnOfMatch(d, expected, match) ==
    LET hits == { i \in 1..Len(d) :
                    /\ lower(d[i].name) = match
                    /\ (lower(expected) = s_revenue => is_numeric_dtype(d, d[i].name)) }
    IN  IF match = None \/ hits = {} THEN None
        ELSE d[CHOOSE i \in hits : \A j \in hits : i <= j].name

TermColumn(d, expected, term) ==
    ColumnOfMatch(d, expected,
                  get_close_matches(lower(term), [i \in 1..Len(d) |-> lower(d[i].name)]))

\* The outer loop: the column of the first term that yields one
RECURSIVE FirstTermColumn(_, _, _, _)
RECURSIVE OrNextTerm(_, _, _, _, _)
OrNextTerm(found, d, expected, possibilities, k) ==
    IF found # None THEN found ELSE FirstTermColumn(d, expected, possibilities, k + 1)

FirstTermColumn(d, expected, possibilities, k) ==
    IF k > Len(possibilities) THEN None
    ELSE OrNextTerm(TermColumn(d, expected, possibilities[k]), d, expected, possibilities, k)

find_best_column(d, expected) == FirstTermColumn(d, expected, SynonymsGet(expected), 1)

\* The value infer_column_roles returns when the response is not a complete
\* JSON object: {}, for which inferred.get(role) is None for every role
EmptyMapping == [Revenue |-> None, Product |-> None, Region |-> None, Month |-> None]

\* infer_column_roles: the values it can return. The response is kept only
\* when it is a JSON object with the four keys.
InferReturns == [Revenue : Proposals, Product : Proposals, Region : Proposals, Month : Proposals]

-----------------------------------------------------------------------------
(* app/app.py *)

FirstOfDtype(d, t) ==
    IF \E i \in 1..Len(d) : d[i].dtype = t
    THEN d[CHOOSE i \in 1..Len(d) : d[i].dtype = t /\ \A j \in 1..(i - 1) : d[j].dtype # t].name
    ELSE None

FirstMonthLike(d) ==
    IF \E i \in 1..Len(d) : Contains(s_month, lower(d[i].name))
    THEN d[CHOOSE i \in 1..Len(d) :
              /\ Contains(s_month, lower(d[i].name))
              /\ \A j \in 1..(i - 1) : ~Contains(s_month, lower(d[j].name))].name
    ELSE None

\* safe_column(df, current, expected_role): [col, df], the column it returns
\* and the DataFrame it leaves (the Month branch may add a column)
safe_column(d, current, expected_role) ==
    IF current # None /\ InColumns(current, d) THEN [col |-> current, df |-> d]
    ELSE IF lower(expected_role) = s_revenue
        THEN [col |-> FirstOfDtype(d, "number"), df |-> d]
    ELSE IF lower(expected_role) = s_month
        THEN IF FirstMonthLike(d) # None THEN [col |-> FirstMonthLike(d), df |-> d]
             ELSE IF InColumns(sDate, d)
                 THEN [col |-> sMonth, df |-> Assign(d, sMonth, "period")]
             ELSE [col |-> None, df |-> d]
    ELSE [col |-> FirstOfDtype(d, "object"), df |-> d]

\* inferred.get(role) or role
Proposed(inf, role) ==
    LET got == IF role = sRevenue THEN inf.Revenue
               ELSE IF role = sProduct THEN inf.Product
               ELSE IF role = sRegion THEN inf.Region
               ELSE inf.Month
    IN  IF got # None THEN got ELSE role

\* Mutant: a proposed name is taken as the column without being looked up
ResolveRole_trusting(d, inf, role) ==
    IF Proposed(inf, role) # role
    THEN [col |-> Proposed(inf, role), df |-> d]
    ELSE safe_column(d, find_best_column(d, role), role)

\* One line of the role resolution block:
\* safe_column(df, find_best_column(df, inferred.get(role) or role), role)
ResolveRole(d, inf, role) == safe_column(d, find_best_column(d, Proposed(inf, role)), role)

NoRoles == [revenue_col |-> None, product_col |-> None, region_col |-> None, month_col |-> None]

\* pd.to_numeric(df[revenue_col], errors='coerce') raises TypeError when
\* df[revenue_col] is a DataFrame, that is when the label is duplicated
ToNumericRaises(d, revenue_col) ==
    InColumns(revenue_col, d) /\ Cardinality(Labelled(d, revenue_col)) > 1

\* The chart's `if`: both roles are set and are columns of df_clean
ChartGuard(d, key, val) ==
    key # None /\ val # None /\ InColumns(val, d) /\ InColumns(key, d)

\* df_clean.groupby(key)[val].sum() raises for a key or a value that is None
\* or no column, and for a duplicated key label; .reset_index() raises
\* "cannot insert, already exists" when the key is the value column.
GroupRaises(d, key, val, reset_index) ==
    \/ key = None \/ val = None
    \/ ~InColumns(key, d) \/ ~InColumns(val, d)
    \/ Cardinality(Labelled(d, key)) > 1
    \/ reset_index /\ key = val

\* The three charts: <<title, key role, whether reset_index() is called>>
Charts ==
    << [title |-> "Total Revenue per Product", key |-> "product_col", reset_index |-> TRUE],
       [title |-> "Monthly Revenue Trend",     key |-> "month_col",   reset_index |-> TRUE],
       [title |-> "Revenue by Region",         key |-> "region_col",  reset_index |-> FALSE] >>

-----------------------------------------------------------------------------
(* The request script of app/app.py, one action per block *)

\* df = load_and_clean_data(tmp_path); df.columns = [col.strip() ...]
\* An exception of the loader is not caught: the request ends.
Upload ==
    /\ pc = "upload"
    /\ \E res \in {load_and_clean_data(file)} :
           IF res.ok
           THEN /\ df' = [i \in 1..Len(res.df) |->
                            [res.df[i] EXCEPT !.name = strip(res.df[i].name)]]
                /\ nrows' = res.nrows
                /\ pc' = "infer"
                /\ error' = ""
           ELSE /\ pc' = "failed"
                /\ error' = res.error
                /\ UNCHANGED <<df, nrows>>
    /\ UNCHANGED <<file, inferred, roles, ai_summary, shown, chart_paths>>

\* inferred = infer_column_roles(df, key): model.generate_content is called
\* outside any try, so its exception leaves infer_column_roles and the
\* script; a response that is no complete JSON object gives {}.
Infer ==
    /\ pc = "infer"
    /\ \/ /\ pc' = "failed"
          /\ error' = "generate_content raised"
          /\ UNCHANGED inferred
       \/ /\ \E m \in InferReturns \cup {EmptyMapping} : inferred' = m
          /\ pc' = "resolve"
          /\ UNCHANGED error
    /\ UNCHANGED <<file, df, nrows, roles, ai_summary, shown, chart_paths>>

\* revenue_col, product_col, region_col, month_col, in this order; each
\* safe_column works on the DataFrame the previous one left.
ResolveRoles ==
    /\ pc = "resolve"
    /\ \E rev \in {ResolveRole(df, inferred, sRevenue)} :
       \E pro \in {ResolveRole(rev.df, inferred, sProduct)} :
       \E reg \in {ResolveRole(pro.df, inferred, sRegion)} :
       \E mon \in {ResolveRole(reg.df, inferred, sMonth)} :
           /\ roles' = [revenue_col |-> rev.col, product_col |-> pro.col,
                        region_col |-> reg.col, month_col |-> mon.col]
           /\ df' = mon.df
    /\ pc' = "summary"
    /\ UNCHANGED <<file, nrows, error, inferred, ai_summary, shown, chart_paths>>

\* The preview and the executive summary: both inside try/except, a failure
\* of the summary call leaves ai_summary = "".
Summary ==
    /\ pc = "summary"
    /\ \E ok \in BOOLEAN : ai_summary' = ok
    /\ pc' = "visualize"
    /\ UNCHANGED <<file, df, nrows, error, inferred, roles, shown, chart_paths>>

\* The visualizations block: the revenue column is coerced to numbers, then
\* each chart is drawn when its `if` holds and skipped otherwise. Nothing
\* here is inside a try.
Visualizations ==
    /\ pc = "visualize"
    /\ LET coerced == IF InColumns(roles.revenue_col, df)
                      THEN Assign(df, roles.revenue_col, "number") ELSE df
           drawn == { k \in 1..Len(Charts) :
                        ChartGuard(coerced, roles[Charts[k].key], roles.revenue_col) }
       IN  IF ToNumericRaises(df, roles.revenue_col)
           THEN /\ pc' = "failed"
                /\ error' = "to_numeric raised"
                /\ UNCHANGED <<df, shown>>
           ELSE IF \E k \in drawn : GroupRaises(coerced, roles[Charts[k].key],
                                                roles.revenue_col, Charts[k].reset_index)
           THEN /\ pc' = "failed"
                /\ error' = "chart raised"
                /\ df' = coerced
                /\ shown' = { Charts[k].title : k \in { j \in drawn :
                                \A i \in 1..j : i \in drawn =>
                                    ~GroupRaises(coerced, roles[Charts[i].key],
                                                 roles.revenue_col, Charts[i].reset_index) } }
           ELSE /\ pc' = "report"
                /\ df' = coerced
                /\ shown' = { Charts[k].title : k \in drawn }
                /\ UNCHANGED error
    /\ UNCHANGED <<file, nrows, inferred, roles, ai_summary, chart_paths>>

\* The PDF report: each chart is rendered inside its own try/except and is
\* left out of the report when it raises; the report is then written.
RECURSIVE SavedCharts(_, _, _)
SavedCharts(d, r, k) ==
    IF k > Len(Charts) THEN <<>>
    ELSE (IF GroupRaises(d, r[Charts[k].key], r.revenue_col, Charts[k].reset_index)
          THEN <<>> ELSE <<Charts[k].title>>) \o SavedCharts(d, r, k + 1)

Report ==
    /\ pc = "report"
    /\ chart_paths' = SavedCharts(df, roles, 1)
    /\ pc' = "done"
    /\ UNCHANGED <<file, df, nrows, error, inferred, roles, ai_summary, shown>>

Next == Upload \/ Infer \/ ResolveRoles \/ Summary \/ Visualizations \/ Report

StartWith(files) ==
    /\ pc = "upload"
    /\ file \in files
    /\ df = <<>>
    /\ nrows = 0
    /\ error = ""
    /\ inferred = EmptyMapping
    /\ roles = NoRoles
    /\ ai_summary = FALSE
    /\ shown = {}
    /\ chart_paths = <<>>

\* The requests followed to their end: a utf-8 CSV file of one data row, or a
\* file of an unsupported type, with every header list of the model
RequestFiles ==
    { [ext |-> e,
       detected  |-> IF e = extCsv THEN "utf-8" ELSE NoEncoding,
       parseable |-> IF e = extCsv THEN {"utf-8"} ELSE {},
       readable |-> TRUE, header |-> h, rows |-> 1, nullrows |-> 0] :
        e \in {extCsv, extJson}, h \in Headers }

Init == StartWith(RequestFiles)

Spec == Init /\ [][Next]_vars

\* The loader alone, on every file of the model
InitLoad == StartWith(TextFiles) \/ StartWith(OtherFiles)

NextLoad == Upload

SpecLoad == InitLoad /\ [][NextLoad]_vars

-----------------------------------------------------------------------------
(* Properties *)

\* The four roles, in the order the script resolves them, with the variable
\* each is stored in
RoleVars ==
    << [role |-> sRevenue, col |-> "revenue_col"],
       [role |-> sProduct, col |-> "product_col"],
       [role |-> sRegion,  col |-> "region_col"],
       [role |-> sMonth,   col |-> "month_col"] >>

Resolved == pc = "summary"

\* C1: when the inference call throws, no exception escapes role resolution:
\* a request is never ended by the exception of the inference call.
C1_InferenceFailureIsRecovered ==
    ~(pc = "failed" /\ error = "generate_content raised")

\* C2: in every Role Mapping produced by role resolution, a present Revenue
\* designates a column of numeric values.
C2_RevenueIsNumeric ==
    (Resolved /\ roles.revenue_col # None)
        => \A i \in Labelled(df, roles.revenue_col) : df[i].dtype = "number"

\* C3: each of the four roles of the Role Mapping is absent or the exact name
\* of a column of the dataset, whenever the mapping is consumed.
C3_RolesAreColumns ==
    \A k \in 1..Len(RoleVars) :
        roles[RoleVars[k].col] = None \/ InColumns(roles[RoleVars[k].col], df)

C3_Witness ==
    /\ pc = "report"
    /\ inferred.Revenue = sZzz
    /\ inferred.Product = sProduct
    /\ roles.revenue_col # None
    /\ roles.product_col # None
    /\ roles.region_col = None

\* A header is near a word when their similarity ratio reaches the cutoff
Near(name, word) ==
    2 * Matches(lower(name), lower(word)) * CutoffDen
        >= CutoffNum * (Len(name) + Len(word))

\* C4: a role is resolved only to a column that approximately matches the
\* name proposed by inference or one of the role's synonyms; otherwise the
\* role is absent.
C4_ResolvedOnlyToNearColumn ==
    Resolved =>
        \A k \in 1..Len(RoleVars) :
            LET col  == roles[RoleVars[k].col]
                syns == SynonymsGet(RoleVars[k].role)
            IN  col # None =>
                    \/ Near(col, Proposed(inferred, RoleVars[k].role))
                    \/ \E j \in 1..Len(syns) : Near(col, syns[j])

\* C5: with some or all roles absent the request still runs to completion:
\* no chart raises and the report is reached after role resolution.
C5_AbsentRolesNeverAbort ==
    ~(/\ pc = "failed"
      /\ error \in {"to_numeric raised", "chart raised"}
      /\ \E k \in 1..Len(RoleVars) : roles[RoleVars[k].col] = None)

\* C6: a file whose extension is neither a spreadsheet nor a delimited-text
\* extension fails with the unsupported-format error and yields no Dataset.
C6_UnsupportedExtensionFails ==
    (pc # "upload" /\ lower(file.ext) \notin {extXls, extXlsx, extCsv, extTxt})
        => (pc = "failed" /\ error = "Unsupported file type" /\ df = <<>>)

C6_Witness ==
    /\ pc = "failed"
    /\ file.ext = extJson
    /\ file.rows > 0
    /\ error = "Unsupported file type"

\* C7: the loader never returns a Dataset with zero data rows.
C7_NoEmptyDataset ==
    pc = "infer" => nrows > 0

\* The encodings the loader is to try for a delimited-text file: the detected
\* one (utf-8 when detection gives none), then the legacy fallbacks
LegacyFallbacks == {"ISO-8859-1"}

FallbackChain(f) ==
    {IF f.detected = NoEncoding THEN "utf-8" ELSE f.detected} \cup LegacyFallbacks

\* C8: a delimited-text file fails with a decode error only after every
\* encoding of the fallback chain has failed.
C8_FailsOnlyAfterWholeChain ==
    (pc = "failed" /\ error = "CSV read error")
        => FallbackChain(file) \cap file.parseable = {}

\* C9: every Dataset the loader returns has pairwise distinct header names.
C9_HeadersDistinct ==
    pc = "infer" => \A i, j \in 1..Len(df) : i # j => df[i].name # df[j].name

\* The proposal for a role is missing, or is near no header
Unmatched(d, inf, role) ==
    \/ Proposed(inf, role) = role
    \/ get_close_matches(lower(Proposed(inf, role)),
                         [i \in 1..Len(d) |-> lower(d[i].name)]) = None

\* C10: under a missing or unmatched proposal a role resolves to the same
\* column as with inference disabled.
C10_UnmatchedProposalFallsBack ==
    Resolved =>
        \A k \in 1..Len(RoleVars) :
            Unmatched(df, inferred, RoleVars[k].role)
                => roles[RoleVars[k].col] = ResolveRole(df, EmptyMapping, RoleVars[k].role).col

\* C11: once the loader has returned, no later step of the request adds,
\* removes, renames or changes the values of a column of the Dataset.
C11_DatasetImmutableAfterLoad ==
    [][pc # "upload" => df' = df]_vars
====
